---- MODULE Spec2Model ----
(***************************************************************************)
(* Model of the in-memory message bus of the agentic RAG chatbot:          *)
(* MCPMessage / MCPBroker / create_mcp_message (models/mcp.py) and         *)
(* BaseAgent (agents/base_agent.py).                                       *)
(*                                                                         *)
(* Python objects are shared by reference, so envelopes live in a heap     *)
(* (heap[oid]) and the history, the call stack and the logs hold oids.     *)
(* publish is synchronous and recursive; the call stack is explicit: one   *)
(* frame per running publish loop and per running _handle_message loop.    *)
(***************************************************************************)
EXTENDS Integers, Sequences, FiniteSets, TLC

\* ---------------------------------------------------------------- bounds
MaxAgents == 2      \* BaseAgent instances constructed
MaxHandlers == 2    \* register_handler calls
MaxMsgs == 3        \* envelopes constructed

\* ------------------------------------------------------- value universes
Ids == {"A", "B"}                   \* agent identities / receivers
Types == {"REQ", "FWD"}             \* message types
None == "None"                      \* Python's None for Optional[str]
UuidPool == <<"u1", "u2", "u3", "u4", "u5", "u6">>
Fields == {"sender", "receiver", "type", "trace_id", "payload"}
NoError == "ok"

\* what a registered handler does with the envelope it is called with
Op(op, to, keep) == [op |-> op, to |-> to, keep |-> keep]
Noop == Op("noop", "-", FALSE)
Forward(to) == Op("send", to, TRUE)     \* send_message(to, .., trace_id=message.trace_id)
SendFresh(to) == Op("send", to, FALSE)  \* send_message(to, ..) without a trace_id
Failing == Op("raise", "-", FALSE)
Setattr == Op("setattr", "-", FALSE)
Setitem == Op("setitem", "-", FALSE)

\* the handlers and the trace_id arguments each specification draws from
BusOps == {Noop, Failing} \cup {Forward(r) : r \in Ids}
BusArgs == {None}
TraceOps == {Forward("B"), SendFresh("B")}
TraceArgs == {None, "", "t1"}
QueryArgs == {None, "", "t1", "u1", "u2"}
FrozenOps == {Noop, Setattr, Setitem}

VARIABLES
    agents,             \* BaseAgent instances: [agent_id, _callbacks]
    _subscribers,       \* MCPBroker._subscribers: identity -> list of callbacks
    _message_history,   \* MCPBroker._message_history: list of envelopes (oids)
    heap,               \* envelope objects by oid
    stack,              \* call stack of running publish / _handle_message loops
    uuidCount,          \* uuid4 values drawn so far
    raised,             \* exception that ended the last top-level call
    args,               \* per oid: the trace_id argument its creator was given
    orig,               \* per oid: the envelope's value when it was constructed
    entered,            \* oids in the order publish was entered
    cause,              \* per oid: the envelope whose handler sent it (0: top level)
    calls,              \* log of callback and handler invocations
    lastRet,            \* the most recent normal return of publish
    lastQuery,          \* the most recent get_message_history call
    done,               \* oids whose publish has returned normally
    sent,               \* per oid: the arguments its publisher was called with
    session,            \* Streamlit's st.session_state
    runs,               \* runs of the Streamlit script so far
    collection,         \* the MongoDB conversation collection (documents stored)
    index,              \* RetrievalAgent.index (None: Pinecone unavailable)
    held,               \* a get_message_history result that its caller keeps
    chunker             \* the running or last call of IngestionAgent._chunk_text

\* the state of the application around the bus
app == <<session, runs, collection, index, held, chunker>>

vars == <<agents, _subscribers, _message_history, heap, stack, uuidCount,
          raised, args, orig, entered, cause, calls, lastRet, lastQuery,
          done, sent, app>>

\* ---------------------------------------------------------------- helpers
EmptyDict == [k \in {} |-> 0]

RECURSIVE SumLens(_, _)
SumLens(f, S) ==
    IF S = {} THEN 0
    ELSE LET k == CHOOSE x \in S : TRUE IN Len(f[k]) + SumLens(f, S \ {k})

RECURSIVE NumHandlers(_, _)
NumHandlers(ags, n) ==
    IF n = 0 THEN 0
    ELSE SumLens(ags[n]._callbacks, DOMAIN ags[n]._callbacks) + NumHandlers(ags, n - 1)

Count(h, o) == Cardinality({i \in DOMAIN h : h[i] = o})
Pos(h, o) == IF Count(h, o) = 0 THEN 0 ELSE CHOOSE i \in DOMAIN h :
                 h[i] = o /\ \A j \in DOMAIN h : h[j] = o => i <= j
Last(h) == IF h = <<>> THEN 0 ELSE h[Len(h)]

Top == stack[Len(stack)]
Pop(s) == SubSeq(s, 1, Len(s) - 1)
ReplaceTop(s, f) == [s EXCEPT ![Len(s)] = f]

\* ------------------------------------------------------------ MCPMessage
\* uuid.uuid4(): the n-th value drawn is a value never drawn before
Uuid4(n) == UuidPool[n + 1]

\* (mutant) `trace_id: str = str(uuid.uuid4())`: one default for every envelope
DefaultTraceIdShared(n) == Uuid4(0)

\* trace_id: str = Field(default_factory=lambda: str(uuid.uuid4()))
DefaultTraceId(n) == Uuid4(n)

\* (mutant) no `frozen = True` in Config
NotFrozen == FALSE

\* class Config: frozen = True
Frozen == TRUE

\* (mutant) sender and receiver exchanged when the envelope is built
MCPMessageSwapped(sender, receiver, type, trace_id, payload) ==
    [sender |-> receiver, receiver |-> sender, type |-> type,
     trace_id |-> trace_id, payload |-> payload]

MCPMessage(sender, receiver, type, trace_id, payload) ==
    [sender |-> sender, receiver |-> receiver, type |-> type,
     trace_id |-> trace_id, payload |-> payload]

\* `if trace_id:` is Python truthiness: None and "" are both false
Truthy(t) == t # None /\ t # ""

create_mcp_message(sender, receiver, msg_type, payload, trace_id, n) ==
    IF Truthy(trace_id)
    THEN MCPMessage(sender, receiver, msg_type, trace_id, payload)
    ELSE MCPMessage(sender, receiver, msg_type, DefaultTraceId(n), payload)

\* ------------------------------------------------------------- MCPBroker
\* (mutant) one callback per identity: `self._subscribers[agent_id] = [callback]`
subscribeReplace(subs, agent_id, callback) ==
    [k \in DOMAIN subs \cup {agent_id} |->
        IF k = agent_id THEN <<callback>> ELSE subs[k]]

subscribe(subs, agent_id, callback) ==
    [k \in DOMAIN subs \cup {agent_id} |->
        IF k \in DOMAIN subs
        THEN (IF k = agent_id THEN Append(subs[k], callback) ELSE subs[k])
        ELSE <<callback>>]

\* (mutant) the envelope is recorded twice
HistoryAppendTwice(h, oid) == Append(Append(h, oid), oid)

\* (mutant) self._message_history.insert(0, message)
HistoryPrepend(h, oid) == <<oid>> \o h

\* self._message_history.append(message)
HistoryAppend(h, oid) == Append(h, oid)

\* (mutant) no membership test before self._subscribers[message.receiver]
HasSubscribersUnchecked(subs, m) == TRUE

\* `if message.receiver in self._subscribers`
HasSubscribers(subs, m) == m.receiver \in DOMAIN subs

\* (mutant) the callbacks are looked up under the sender
SubscriberKeySender(m) == m.sender

\* the key of self._subscribers[message.receiver]
SubscriberKey(m) == m.receiver

\* get_message_history(trace_id): the envelopes (oids) returned
get_message_history(trace_id) ==
    IF Truthy(trace_id)
    THEN SelectSeq(_message_history, LAMBDA o : heap[o].trace_id = trace_id)
    ELSE _message_history

\* `return self._message_history`: without a truthy filter the caller gets the
\* broker's own list object, with one a list built by the comprehension
ReturnsHistoryItself(trace_id) == ~Truthy(trace_id)

\* -------------------------------------------------------------- BaseAgent
\* (mutant) no membership test before self._callbacks[message.type]
HasHandlerUnchecked(cbs, m) == TRUE

\* `if message.type in self._callbacks`
HasHandler(cbs, m) == m.type \in DOMAIN cbs

\* the key of self._callbacks[message.type]
HandlerKey(m) == m.type

\* (mutant) self._callbacks[message_type].insert(0, callback)
register_handlerFront(cbs, message_type, h) ==
    [k \in DOMAIN cbs \cup {message_type} |->
        IF k \in DOMAIN cbs
        THEN (IF k = message_type THEN <<h>> \o cbs[k] ELSE cbs[k])
        ELSE <<h>>]

\* self._callbacks[message_type].append(callback), after creating the list
register_handler(cbs, message_type, h) ==
    [k \in DOMAIN cbs \cup {message_type} |->
        IF k \in DOMAIN cbs
        THEN (IF k = message_type THEN Append(cbs[k], h) ELSE cbs[k])
        ELSE <<h>>]

\* ------------------------------------------------------------------ Init
NoQuery == [arg |-> "-", res |-> <<>>]

\* no get_message_history result is kept
NoHeld == [arg |-> "-", res |-> <<>>, alias |-> FALSE]

\* _chunk_text has not been called: no range computed yet
NoRange == [start_char |-> 0, end_char |-> 0, back |-> -1, blank |-> TRUE,
            kept |-> FALSE]
NoChunker == [pc |-> "idle", len |-> 0, start |-> 0, ranges |-> 0, chunks |-> 0,
              last |-> NoRange]

\* st.session_state before the first run of the script
NoSession == [agents_initialized |-> FALSE, session_id |-> None,
              messages |-> <<>>, responses |-> <<>>,
              waiting_for_response |-> FALSE]

Init ==
    /\ agents = <<>>
    /\ _subscribers = EmptyDict
    /\ _message_history = <<>>
    /\ heap = <<>>
    /\ stack = <<>>
    /\ uuidCount = 0
    /\ raised = NoError
    /\ args = <<>>
    /\ orig = <<>>
    /\ entered = <<>>
    /\ cause = <<>>
    /\ calls = <<>>
    /\ lastRet = [msg |-> 0, value |-> "-", base |-> 0, before |-> 0, nested |-> 0,
                  hlen |-> 0, loop |-> FALSE, pos |-> 0, count |-> 0, tail |-> 0]
    /\ lastQuery = NoQuery
    /\ done = {}
    /\ sent = <<>>
    /\ session = NoSession
    /\ runs = 0
    /\ collection = <<>>
    /\ index = None
    /\ held = NoHeld
    /\ chunker = NoChunker

\* ------------------------------------------------------- call machinery
\* base, before and nested remember the history at entry and the publishes
\* since; pc is the position inside a handler that makes several sends
Frame(k, msg, agent, loop) ==
    [k |-> k, msg |-> msg, i |-> 1, agent |-> agent, loop |-> loop,
     base |-> Len(_message_history), before |-> Count(_message_history, msg),
     nested |-> 0, pc |-> 0]

\* every publish still running gets one more nested publish in its cascade
BumpNested(s) ==
    [x \in DOMAIN s |->
        IF s[x].k = "publish" THEN [s[x] EXCEPT !.nested = @ + 1] ELSE s[x]]

\* (mutant) `try: callback(message) except Exception: continue` in the loops
RaiseCaught(e) ==
    /\ stack' = ReplaceTop(stack, [Top EXCEPT !.i = @ + 1])
    /\ raised' = raised

\* an exception no frame catches: it unwinds the whole call stack
Raise(e) ==
    /\ stack' = <<>>
    /\ raised' = e

\* (mutant) delivery deferred to a queue: the new publish runs after its caller
PushFrameDeferred(s, f) == <<f>> \o s

\* a Python call: the callee runs on top of its caller, which waits for it
PushFrame(s, f) == Append(s, f)

\* MCPBroker.publish(message), up to the start of the callback loop, for the
\* envelope m just constructed from the trace_id argument arg; s is the
\* caller's stack
EnterPublish(m, arg, s, from) ==
    LET oid == Len(heap) + 1 IN
    /\ heap' = Append(heap, m)
    /\ args' = Append(args, arg)
    /\ orig' = Append(orig, m)
    /\ uuidCount' = IF Truthy(arg) THEN uuidCount ELSE uuidCount + 1
    /\ _message_history' = HistoryAppend(_message_history, oid)
    /\ entered' = Append(entered, oid)
    /\ cause' = Append(cause, from)
    /\ stack' = PushFrame(BumpNested(s),
                          Frame("publish", oid, 0, HasSubscribers(_subscribers, m)))

\* BaseAgent.send_message(receiver, msg_type, payload, trace_id) of agent a,
\* called with the stack s from the handler of envelope `from` (0: top level)
send_message(a, receiver, msg_type, payload, trace_id, s, from) ==
    /\ EnterPublish(create_mcp_message(agents[a].agent_id, receiver, msg_type,
                                       payload, trace_id, uuidCount),
                    trace_id, s, from)
    /\ sent' = Append(sent, [self |-> agents[a].agent_id, receiver |-> receiver,
                             type |-> msg_type, payload |-> payload,
                             trace_id |-> trace_id])

\* --------------------------------------------------------------- actions
\* BaseAgent.__init__(agent_id)
Construct(id) ==
    /\ heap = <<>>
    /\ Len(agents) < MaxAgents
    /\ agents' = Append(agents, [agent_id |-> id, _callbacks |-> EmptyDict])
    /\ _subscribers' = subscribe(_subscribers, id, [kind |-> "agent", a |-> Len(agents) + 1])
    /\ UNCHANGED <<_message_history, heap, stack, uuidCount, raised, args, orig,
                   entered, cause, calls, lastRet, lastQuery,
                   done, sent, app>>

\* BaseAgent.register_handler(message_type, callback)
RegisterHandler(a, t, h) ==
    /\ heap = <<>>
    /\ NumHandlers(agents, Len(agents)) < MaxHandlers
    /\ agents' = [agents EXCEPT ![a]._callbacks = register_handler(@, t, h)]
    /\ UNCHANGED <<_subscribers, _message_history, heap, stack, uuidCount, raised,
                   args, orig, entered, cause, calls, lastRet, lastQuery,
                   done, sent, app>>

\* a top-level BaseAgent.send_message(receiver, msg_type, payload, trace_id)
SendMessage(a, receiver, t, arg) ==
    /\ stack = <<>>
    /\ a \in DOMAIN agents
    /\ Len(heap) < MaxMsgs
    /\ send_message(a, receiver, t, [n |-> 1], arg, stack, 0)
    /\ raised' = NoError
    /\ lastQuery' = NoQuery
    /\ UNCHANGED <<agents, _subscribers, calls, lastRet,
                   done, app>>

\* publish: `for i, callback in enumerate(self._subscribers[message.receiver])`
\* invokes the next callback, BaseAgent._handle_message of a subscribed agent
InvokeCallback ==
    /\ stack # <<>>
    /\ Top.k = "publish"
    /\ Top.loop
    /\ LET m == heap[Top.msg]
           key == SubscriberKey(m)
       IN IF key \notin DOMAIN _subscribers
          THEN /\ Raise("KeyError")
               /\ UNCHANGED calls
          ELSE /\ Top.i <= Len(_subscribers[key])
               /\ _subscribers[key][Top.i].kind = "agent"
               /\ LET cb == _subscribers[key][Top.i] IN
                  /\ stack' = Append(ReplaceTop(stack, [Top EXCEPT !.i = @ + 1]),
                                     Frame("dispatch", Top.msg, cb.a,
                                           HasHandler(agents[cb.a]._callbacks, m)))
                  /\ calls' = Append(calls, [kind |-> "callback", key |-> key,
                                             agent |-> cb.a, idx |-> Top.i,
                                             msg |-> Top.msg, op |-> "-",
                                             obs |-> m])
               /\ UNCHANGED raised
    /\ UNCHANGED <<agents, _subscribers, _message_history, heap, uuidCount, args,
                   orig, entered, cause, lastRet, lastQuery,
                   done, sent, app>>

\* publish: the loop is over, or the no-subscriber branch was taken;
\* `return message.trace_id`
PublishReturn ==
    /\ stack # <<>>
    /\ Top.k = "publish"
    /\ LET key == SubscriberKey(heap[Top.msg]) IN
       IF Top.loop
       THEN key \in DOMAIN _subscribers /\ Top.i > Len(_subscribers[key])
       ELSE TRUE
    /\ stack' = Pop(stack)
    /\ lastRet' = [msg |-> Top.msg, value |-> heap[Top.msg].trace_id,
                   base |-> Top.base, before |-> Top.before, nested |-> Top.nested,
                   hlen |-> Len(_message_history), loop |-> Top.loop,
                   pos |-> Pos(_message_history, Top.msg),
                   count |-> Count(_message_history, Top.msg),
                   tail |-> Last(_message_history)]
    /\ done' = done \cup {Top.msg}
    /\ UNCHANGED <<agents, _subscribers, _message_history, heap, uuidCount, raised,
                   args, orig, entered, cause, calls, lastQuery,
                   sent, app>>

\* (mutant) `for callback in reversed(self._callbacks[message.type])`
DispatchReversed(n, i) == n + 1 - i

\* `for callback in self._callbacks[message.type]`: the i-th iteration takes
\* the i-th registered handler of a list of n
DispatchOrder(n, i) == i

\* the registration index of the handler _handle_message is about to call
NextIdx ==
    DispatchOrder(Len(agents[Top.agent]._callbacks[HandlerKey(heap[Top.msg])]), Top.i)

NextHandler == agents[Top.agent]._callbacks[HandlerKey(heap[Top.msg])][NextIdx]

HandlerReady(op) ==
    /\ stack # <<>>
    /\ Top.k = "dispatch"
    /\ Top.loop
    /\ Top.pc = 0
    /\ LET key == HandlerKey(heap[Top.msg])
           cbs == agents[Top.agent]._callbacks
       IN /\ key \in DOMAIN cbs
          /\ Top.i <= Len(cbs[key])
          /\ NextHandler.op = op

LogHandler ==
    calls' = Append(calls, [kind |-> "handler", key |-> HandlerKey(heap[Top.msg]),
                            agent |-> Top.agent, idx |-> NextIdx, msg |-> Top.msg,
                            op |-> NextHandler.op, obs |-> heap[Top.msg]])

Advance == ReplaceTop(stack, [Top EXCEPT !.i = @ + 1, !.pc = 0])

\* _handle_message with `self._callbacks[message.type]` on a missing key
DispatchKeyError ==
    /\ stack # <<>>
    /\ Top.k = "dispatch"
    /\ Top.loop
    /\ HandlerKey(heap[Top.msg]) \notin DOMAIN agents[Top.agent]._callbacks

\* a handler that only reads the envelope
HandlerNoop ==
    /\ HandlerReady("noop")
    /\ LogHandler
    /\ stack' = Advance
    /\ UNCHANGED <<agents, _subscribers, _message_history, heap, uuidCount, raised,
                   args, orig, entered, cause, lastRet, lastQuery,
                   done, sent, app>>

\* a handler that calls self.send_message(to, "FWD", {...}, trace_id), with
\* trace_id = message.trace_id (keep) or without a trace_id
HandlerSend ==
    /\ HandlerReady("send")
    /\ Len(heap) < MaxMsgs
    /\ LogHandler
    /\ LET h == NextHandler
           m == heap[Top.msg]
           arg == IF h.keep THEN m.trace_id ELSE None
       IN send_message(Top.agent, h.to, "FWD", [n |-> 1], arg, Advance, Top.msg)
    /\ UNCHANGED <<agents, _subscribers, raised, lastRet, lastQuery,
                   done, app>>

\* a handler that raises (as ChatAgent._handle_query does when insert_one fails)
HandlerRaise ==
    /\ HandlerReady("raise")
    /\ LogHandler
    /\ Raise("Exception")
    /\ UNCHANGED <<agents, _subscribers, _message_history, heap, uuidCount, args,
                   orig, entered, cause, lastRet, lastQuery,
                   done, sent, app>>

\* a handler that assigns to a field of the envelope: `message.<f> = ...`
HandlerSetattr ==
    /\ HandlerReady("setattr")
    /\ LogHandler
    /\ IF Frozen
       THEN /\ Raise("TypeError")
            /\ UNCHANGED heap
       ELSE /\ \E f \in Fields :
                 heap' = [heap EXCEPT ![Top.msg] =
                            IF f = "payload" THEN [@ EXCEPT !.payload = [n |-> 0]]
                            ELSE [@ EXCEPT ![f] = "x"]]
            /\ stack' = Advance
            /\ UNCHANGED raised
    /\ UNCHANGED <<agents, _subscribers, _message_history, uuidCount, args, orig,
                   entered, cause, lastRet, lastQuery,
                   done, sent, app>>

\* a handler that changes the payload dict in place: `message.payload["n"] = 2`
HandlerSetitem ==
    /\ HandlerReady("setitem")
    /\ LogHandler
    /\ heap' = [heap EXCEPT ![Top.msg].payload.n = 2]
    /\ stack' = Advance
    /\ UNCHANGED <<agents, _subscribers, _message_history, uuidCount, raised, args,
                   orig, entered, cause, lastRet, lastQuery,
                   done, sent, app>>

\* _handle_message: the loop is over, or the no-handler branch (a warning)
DispatchReturn ==
    /\ stack # <<>>
    /\ Top.k = "dispatch"
    /\ IF DispatchKeyError
       THEN Raise("KeyError")
       ELSE /\ IF Top.loop
               THEN Top.i > Len(agents[Top.agent]._callbacks[HandlerKey(heap[Top.msg])])
               ELSE TRUE
            /\ stack' = Pop(stack)
            /\ UNCHANGED raised
    /\ UNCHANGED <<agents, _subscribers, _message_history, heap, uuidCount, args,
                   orig, entered, cause, calls, lastRet, lastQuery,
                   done, sent, app>>

\* a top-level MCPBroker.get_message_history(trace_id)
GetHistory(t) ==
    /\ stack = <<>>
    /\ lastQuery' = [arg |-> t, res |-> get_message_history(t)]
    /\ UNCHANGED <<agents, _subscribers, _message_history, heap, stack, uuidCount,
                   raised, args, orig, entered, cause, calls, lastRet,
                   done, sent, app>>

\* ------------------------------------------------------- specifications
\* agents are constructed and their handlers registered before traffic flows
Setup(ops, types) ==
    \/ \E id \in Ids : Construct(id)
    \/ \E a \in DOMAIN agents, t \in types, h \in ops : RegisterHandler(a, t, h)

Deliver ==
    \/ InvokeCallback
    \/ PublishReturn
    \/ DispatchReturn

\* the bus with handlers that read, forward or fail; the broker never reads
\* the sender, so the first agent (of either identity) makes the top-level
\* sends: requests to "A", which the handlers forward as "FWD" to either
\* identity; "A" has no, one or several subscribers
Next ==
    \/ Setup(BusOps, Types)
    \/ \E arg \in BusArgs : SendMessage(1, "A", "REQ", arg)
    \/ Deliver
    \/ HandlerNoop
    \/ HandlerSend
    \/ HandlerRaise

Spec == Init /\ [][Next]_vars

\* trace ids: senders with and without a trace_id, and history queries
NextTrace ==
    \/ Setup(TraceOps, {"REQ"})
    \/ \E arg \in TraceArgs : SendMessage(1, "B", "REQ", arg)
    \/ Deliver
    \/ HandlerSend
    \/ \E t \in QueryArgs : GetHistory(t)

SpecTrace == Init /\ [][NextTrace]_vars

\* handlers that try to change the envelope they are handed
NextFrozen ==
    \/ Setup(FrozenOps, {"REQ"})
    \/ \E r \in Ids : SendMessage(1, r, "REQ", None)
    \/ Deliver
    \/ HandlerNoop
    \/ HandlerSetattr
    \/ HandlerSetitem

SpecFrozen == Init /\ [][NextFrozen]_vars

\* handlers that change the tables while an envelope is being delivered
Subscribe == Op("subscribe", "-", FALSE)    \* BaseAgent(message.receiver)
Register == Op("register", "-", FALSE)      \* self.register_handler(message.type, ..)
DynamicOps == {Noop, Subscribe, Register}

\* a handler that constructs a BaseAgent under the envelope's receiver:
\* BaseAgent.__init__ subscribes the new agent's _handle_message while
\* publish is iterating over self._subscribers[message.receiver]
HandlerSubscribe ==
    /\ HandlerReady("subscribe")
    /\ Len(agents) < MaxAgents
    /\ LET m == heap[Top.msg]
           a == Len(agents) + 1
           subs == subscribe(_subscribers, m.receiver, [kind |-> "agent", a |-> a])
       IN /\ agents' = Append(agents, [agent_id |-> m.receiver, _callbacks |-> EmptyDict])
          /\ _subscribers' = subs
          /\ calls' = calls \o
                <<[kind |-> "handler", key |-> HandlerKey(m), agent |-> Top.agent,
                   idx |-> NextIdx, msg |-> Top.msg, op |-> NextHandler.op, obs |-> m],
                  [kind |-> "subscribe", key |-> m.receiver, agent |-> a,
                   idx |-> Len(subs[m.receiver]), msg |-> Top.msg, op |-> "-",
                   obs |-> m]>>
    /\ stack' = Advance
    /\ UNCHANGED <<_message_history, heap, uuidCount, raised, args, orig, entered,
                   cause, lastRet, lastQuery, done, sent, app>>

\* a handler that registers one more handler for the envelope's type on its
\* own agent while _handle_message is iterating over
\* self._callbacks[message.type]
HandlerRegister ==
    /\ HandlerReady("register")
    /\ NumHandlers(agents, Len(agents)) < MaxHandlers
    /\ LET m == heap[Top.msg]
           cbs == register_handler(agents[Top.agent]._callbacks, HandlerKey(m), Noop)
       IN /\ agents' = [agents EXCEPT ![Top.agent]._callbacks = cbs]
          /\ calls' = calls \o
                <<[kind |-> "handler", key |-> HandlerKey(m), agent |-> Top.agent,
                   idx |-> NextIdx, msg |-> Top.msg, op |-> NextHandler.op, obs |-> m],
                  [kind |-> "register", key |-> HandlerKey(m), agent |-> Top.agent,
                   idx |-> Len(cbs[HandlerKey(m)]), msg |-> Top.msg, op |-> "-",
                   obs |-> m]>>
    /\ stack' = Advance
    /\ UNCHANGED <<_subscribers, _message_history, heap, uuidCount, raised, args,
                   orig, entered, cause, lastRet, lastQuery, done, sent, app>>

\* the tables changed during delivery: handlers that subscribe or register
NextDynamic ==
    \/ Setup(DynamicOps, {"REQ"})
    \/ SendMessage(1, "A", "REQ", None)
    \/ Deliver
    \/ HandlerNoop
    \/ HandlerSubscribe
    \/ HandlerRegister

SpecDynamic == Init /\ [][NextDynamic]_vars

\* a top-level `h = mcp_broker.get_message_history(trace_id)` whose caller
\* keeps h: res is the value at the return, alias tells whether h is the
\* broker's list object
KeepHistory(t) ==
    /\ stack = <<>>
    /\ held' = [arg |-> t, res |-> get_message_history(t),
                alias |-> ReturnsHistoryItself(t)]
    /\ UNCHANGED <<agents, _subscribers, _message_history, heap, stack, uuidCount,
                   raised, args, orig, entered, cause, calls, lastRet, lastQuery,
                   done, sent, session, runs, collection, index, chunker>>

\* the value of the kept list h now: a list object shared with the broker
\* shows the broker's appends
Held == IF held.alias THEN _message_history ELSE held.res

\* history results kept across later publishes
NextHistory ==
    \/ Setup(TraceOps, {"REQ"})
    \/ \E arg \in {None, "t1"} : SendMessage(1, "B", "REQ", arg)
    \/ Deliver
    \/ HandlerSend
    \/ \E t \in TraceArgs : KeepHistory(t)

SpecHistory == Init /\ [][NextHistory]_vars

\* ============================================================ application
\* The concrete agents (agents/*.py), initialize_agents (app/main.py) and the
\* Streamlit script (app/streamlit_app.py) on top of the bus above. Lists in
\* payloads are kept as strings: "[]" is the empty list.
MaxRuns == 2        \* runs of the Streamlit script

\* AgentID
INGESTION == "IngestionAgent"
RETRIEVAL == "RetrievalAgent"
CHAT == "ChatAgent"
LLM == "LLMResponseAgent"
UI == "UIAgent"

\* MessageType
DOCUMENT_UPLOAD == "DOCUMENT_UPLOAD"
DOCUMENT_PROCESSED == "DOCUMENT_PROCESSED"
QUERY == "QUERY"
CONTEXT_REQUEST == "CONTEXT_REQUEST"
CONTEXT_RESPONSE == "CONTEXT_RESPONSE"
LLM_RESPONSE == "LLM_RESPONSE"
CHAT_HISTORY_REQUEST == "CHAT_HISTORY_REQUEST"
CHAT_HISTORY_RESPONSE == "CHAT_HISTORY_RESPONSE"
LLM_REQUEST == "LLM_REQUEST"
ERROR == "ERROR"

\* the literal answer of a failed generation step
LLMError == "[LLM Error: Unable to generate response]"

\* a Python list of names as the text the payloads carry: "[f1, f2]"
RECURSIVE Join(_)
Join(l) ==
    IF l = <<>> THEN ""
    ELSE IF Len(l) = 1 THEN l[1] ELSE l[1] \o ", " \o Join(Tail(l))

ListStr(l) == "[" \o Join(l) \o "]"

\* the file lists a user uploads, and the list that a payload text stands for
Uploads == {<<"f1", "f2">>, <<"f2", "f1">>}
FileList(text) == CHOOSE l \in Uploads \cup {<<>>} : ListStr(l) = text

\* _process_document(file_path) of a readable file of a supported type: its
\* chunks, each with metadata.source = file_path
_process_document(file_path) == <<"c" \o file_path>>

\* dict.get(key, default)
Get(d, key, default) == IF key \in DOMAIN d THEN d[key] ELSE default

\* the handlers of the concrete agents
_handle_document_upload == Op("document_upload", RETRIEVAL, TRUE)
_handle_document_processed == Op("document_processed", "-", TRUE)
_handle_context_request == Op("context_request", LLM, TRUE)
_handle_query == Op("query", RETRIEVAL, TRUE)
_handle_llm_response == Op("llm_response", "-", TRUE)
_handle_chat_history_request == Op("chat_history_request", "-", TRUE)
_handle_context_response == Op("context_response", CHAT, TRUE)

\* the concrete agents as constructed: identity and registered handlers
IngestionAgent ==
    [agent_id |-> INGESTION,
     _callbacks |-> register_handler(EmptyDict, DOCUMENT_UPLOAD, _handle_document_upload)]

RetrievalAgent ==
    [agent_id |-> RETRIEVAL,
     _callbacks |-> register_handler(
                        register_handler(EmptyDict, DOCUMENT_PROCESSED,
                                         _handle_document_processed),
                        CONTEXT_REQUEST, _handle_context_request)]

ChatAgent ==
    [agent_id |-> CHAT,
     _callbacks |-> register_handler(
                        register_handler(
                            register_handler(EmptyDict, QUERY, _handle_query),
                            LLM_RESPONSE, _handle_llm_response),
                        CHAT_HISTORY_REQUEST, _handle_chat_history_request)]

LLMResponseAgent ==
    [agent_id |-> LLM,
     _callbacks |-> register_handler(EmptyDict, CONTEXT_RESPONSE,
                                     _handle_context_response)]

\* BaseAgent.__init__ for each agent of the sequence new, appended after the
\* n agents that exist: each subscribes its own _handle_message
RECURSIVE SubscribeAll(_, _, _)
SubscribeAll(subs, new, n) ==
    IF new = <<>> THEN subs
    ELSE SubscribeAll(subscribe(subs, Head(new).agent_id,
                                [kind |-> "agent", a |-> n + 1]),
                      Tail(new), n + 1)

\* initialize_agents(): the four agents in construction order
initialize_agents == <<IngestionAgent, RetrievalAgent, ChatAgent, LLMResponseAgent>>

\* UIAgent.__init__ of the n-th run: subscribes its _handle_message
UIAgent(subs, n) == subscribe(subs, UI, [kind |-> "ui", a |-> n])

\* init_session_state(): the keys that are missing get their initial value
init_session_state(ss) ==
    [ss EXCEPT !.session_id = IF @ = None THEN "sid" ELSE @]

\* (mutant) the workflow's sends start a new trace
CascadeTraceFresh(m) == None

\* `trace_id = message.trace_id`, passed on to every send_message of a handler
CascadeTrace(m) == m.trace_id

\* (mutant) the answer goes to the UI first, then to the Chat agent
ResponseRouteUIFirst == <<UI, CHAT>>

\* the two receivers of the LLM agent's answer, in sending order
ResponseRoute == <<CHAT, UI>>

\* mcp_broker.publish(create_mcp_message(sender, receiver, msg_type, payload))
\* as the script calls it: no BaseAgent, no trace_id
publish(sender, receiver, msg_type, payload, s) ==
    /\ EnterPublish(create_mcp_message(sender, receiver, msg_type, payload, None,
                                       uuidCount), None, s, 0)
    /\ sent' = Append(sent, [self |-> "-", receiver |-> receiver, type |-> msg_type,
                             payload |-> payload, trace_id |-> None])

\* main() up to the sidebar: initialize_agents() on the session's first run
\* (the Pinecone connection made or not), init_session_state(), UIAgent()
MainStart ==
    /\ stack = <<>>
    /\ runs < MaxRuns
    /\ runs' = runs + 1
    /\ raised' = NoError
    /\ LET first == ~session.agents_initialized
           subs == IF first
                   THEN SubscribeAll(_subscribers, initialize_agents, Len(agents))
                   ELSE _subscribers
       IN /\ agents' = IF first THEN agents \o initialize_agents ELSE agents
          /\ IF first THEN index' \in {None, "index"} ELSE index' = index
          /\ _subscribers' = UIAgent(subs, runs + 1)
    /\ session' = init_session_state([session EXCEPT !.agents_initialized = TRUE])
    /\ stack' = <<Frame("main", 0, 0, FALSE)>>
    /\ UNCHANGED <<_message_history, heap, uuidCount, args, orig, entered, cause,
                   calls, lastRet, lastQuery, done, sent, collection, held,
                   chunker>>

InMain ==
    /\ stack # <<>>
    /\ Top.k = "main"

\* main(): "Process Documents" pressed with files uploaded
MainUpload ==
    /\ InMain
    /\ Top.pc = 0
    /\ \E file_paths \in Uploads :
          publish(UI, INGESTION, DOCUMENT_UPLOAD, [file_paths |-> ListStr(file_paths)],
                  ReplaceTop(stack, [Top EXCEPT !.pc = 1]))
    /\ UNCHANGED <<agents, _subscribers, raised, calls, lastRet, lastQuery, done, app>>

\* main(): a prompt typed into st.chat_input while no answer is awaited
MainPrompt ==
    /\ InMain
    /\ Top.pc = 0
    /\ ~session.waiting_for_response
    /\ session' = [session EXCEPT !.messages = Append(@, "q"),
                                  !.waiting_for_response = TRUE]
    /\ publish(UI, CHAT, QUERY, [query |-> "q", session_id |-> session.session_id],
               ReplaceTop(stack, [Top EXCEPT !.pc = 1]))
    /\ UNCHANGED <<agents, _subscribers, raised, calls, lastRet, lastQuery, done,
                   runs, collection, index, held, chunker>>

\* main() ends: nothing was submitted, or the publish it made has returned
MainReturn ==
    /\ InMain
    /\ stack' = Pop(stack)
    /\ UNCHANGED <<agents, _subscribers, _message_history, heap, uuidCount, raised,
                   args, orig, entered, cause, calls, lastRet, lastQuery, done,
                   sent, app>>

\* publish invokes the next callback, UIAgent._handle_message
InvokeUICallback ==
    /\ stack # <<>>
    /\ Top.k = "publish"
    /\ Top.loop
    /\ LET m == heap[Top.msg]
           key == SubscriberKey(m)
       IN /\ key \in DOMAIN _subscribers
          /\ Top.i <= Len(_subscribers[key])
          /\ _subscribers[key][Top.i].kind = "ui"
          /\ calls' = Append(calls, [kind |-> "ui", key |-> key,
                                     agent |-> _subscribers[key][Top.i].a,
                                     idx |-> Top.i, msg |-> Top.msg, op |-> "-",
                                     obs |-> m])
          /\ session' =
                IF m.type = LLM_RESPONSE
                THEN [session EXCEPT
                        !.responses = Append(@, [text |-> Get(m.payload, "response", ""),
                                                 sources |-> Get(m.payload, "sources", "[]")]),
                        !.waiting_for_response = FALSE]
                ELSE session
    /\ stack' = ReplaceTop(stack, [Top EXCEPT !.i = @ + 1])
    /\ UNCHANGED <<agents, _subscribers, _message_history, heap, uuidCount, raised,
                   args, orig, entered, cause, lastRet, lastQuery, done, sent,
                   runs, collection, index, held, chunker>>

\* the unchanged part of a handler step that sends one envelope
SendFrame == UNCHANGED <<agents, _subscribers, raised, lastRet, lastQuery, done,
                         session, runs, index, held, chunker>>

\* the unchanged part of a handler step that raises
RaiseFrame == UNCHANGED <<agents, _subscribers, _message_history, heap, uuidCount,
                          args, orig, entered, cause, lastRet, lastQuery, done,
                          sent, app>>

\* ChatAgent._store_message: the document handed to collection.insert_one
message_doc(session_id, trace_id, role) ==
    [session_id |-> session_id, trace_id |-> trace_id, role |-> role]

\* ChatAgent._handle_query: store the user turn (insert_one succeeds or
\* raises), then send CONTEXT_REQUEST to the Retrieval agent
HandleQuery ==
    /\ HandlerReady("query")
    /\ LogHandler
    /\ LET m == heap[Top.msg]
           query == Get(m.payload, "query", "")
           session_id == Get(m.payload, "session_id", "default")
       IN \/ /\ collection' = Append(collection,
                                     message_doc(session_id, m.trace_id, "user"))
             /\ send_message(Top.agent, RETRIEVAL, CONTEXT_REQUEST,
                             [query |-> query, session_id |-> session_id],
                             CascadeTrace(m), Advance, Top.msg)
             /\ SendFrame
          \/ /\ Raise("PyMongoError")
             /\ RaiseFrame

\* ChatAgent._handle_llm_response: store the assistant turn
HandleLLMResponse ==
    /\ HandlerReady("llm_response")
    /\ LogHandler
    /\ LET m == heap[Top.msg]
           session_id == Get(m.payload, "session_id", "default")
       IN \/ /\ collection' = Append(collection,
                                     message_doc(session_id, m.trace_id, "assistant"))
             /\ stack' = Advance
             /\ UNCHANGED <<agents, _subscribers, _message_history, heap, uuidCount,
                            raised, args, orig, entered, cause, lastRet, lastQuery,
                            done, sent, session, runs, index, held, chunker>>
          \/ /\ Raise("PyMongoError")
             /\ RaiseFrame

\* (mutant) the reply repeats the type of the request
HistoryReplyTypeEcho == CHAT_HISTORY_REQUEST

\* msg_type=MessageType.CHAT_HISTORY_RESPONSE
HistoryReplyType == CHAT_HISTORY_RESPONSE

\* ChatAgent._handle_chat_history_request: read the history (find succeeds or
\* raises), then send CHAT_HISTORY_RESPONSE to the request's sender
HandleChatHistoryRequest ==
    /\ HandlerReady("chat_history_request")
    /\ LogHandler
    /\ LET m == heap[Top.msg]
           session_id == Get(m.payload, "session_id", "default")
       IN \/ /\ send_message(Top.agent, m.sender, HistoryReplyType,
                             [session_id |-> session_id, history |-> "history"],
                             CascadeTrace(m), Advance, Top.msg)
             /\ SendFrame
             /\ UNCHANGED collection
          \/ /\ Raise("PyMongoError")
             /\ RaiseFrame

\* SIMILARITY_THRESHOLD = 0.35; scores are kept in hundredths
SIMILARITY_THRESHOLD == 35

Match(text, source, score) == [text |-> text, source |-> source, score |-> score]

\* results.matches of index.query: one match under the threshold; or one
\* above it, one under it and one at it
Searches ==
    {<<Match("c3", "f3", SIMILARITY_THRESHOLD - 1)>>,
     <<Match("c2", "f2", 90), Match("c3", "f3", SIMILARITY_THRESHOLD - 1),
       Match("c1", "f1", SIMILARITY_THRESHOLD)>>}

\* [match for match in results.matches if match.score >= SIMILARITY_THRESHOLD]
filtered_results(matches) ==
    SelectSeq(matches, LAMBDA match : match.score >= SIMILARITY_THRESHOLD)

\* the payload of the normal path: chunks and sources of the filtered matches
ContextPayload(query, matches) ==
    LET kept == filtered_results(matches) IN
    [query |-> query,
     chunks |-> ListStr([i \in DOMAIN kept |-> kept[i].text]),
     sources |-> ListStr([i \in DOMAIN kept |-> kept[i].source])]

\* RetrievalAgent._handle_context_request: nothing for an empty query; an
\* empty context when the index is missing or the search raises; otherwise
\* the chunks and sources of the matches above the threshold
HandleContextRequest ==
    /\ HandlerReady("context_request")
    /\ LogHandler
    /\ LET m == heap[Top.msg]
           query == Get(m.payload, "query", "")
           degraded == [context |-> "[]", query |-> query]
       IN IF query = ""
          THEN /\ stack' = Advance
               /\ UNCHANGED <<agents, _subscribers, _message_history, heap,
                              uuidCount, raised, args, orig, entered, cause,
                              lastRet, lastQuery, done, sent, app>>
          ELSE /\ \E payload \in
                      IF index = None THEN {degraded}
                      ELSE {degraded} \cup
                           {ContextPayload(query, matches) : matches \in Searches} :
                     send_message(Top.agent, LLM, CONTEXT_RESPONSE, payload,
                                  CascadeTrace(m), Advance, Top.msg)
               /\ SendFrame
               /\ UNCHANGED collection

\* RetrievalAgent._handle_document_processed: upsert the vectors; a failure of
\* the upsert is caught, and nothing is sent
HandleDocumentProcessed ==
    /\ HandlerReady("document_processed")
    /\ LogHandler
    /\ stack' = Advance
    /\ UNCHANGED <<agents, _subscribers, _message_history, heap, uuidCount, raised,
                   args, orig, entered, cause, lastRet, lastQuery, done, sent, app>>

\* `for file_path in file_paths: try: ... except Exception`: every file is
\* processed, whichever files failed before
Processed(file_paths, ok) == DOMAIN file_paths

\* all_chunks after the loop over the first n files, ok being the positions
\* of the files _process_document succeeds on
RECURSIVE AllChunks(_, _, _)
AllChunks(file_paths, ok, n) ==
    IF n = 0 THEN <<>>
    ELSE AllChunks(file_paths, ok, n - 1)
            \o (IF n \in ok /\ n \in Processed(file_paths, ok)
                THEN _process_document(file_paths[n]) ELSE <<>>)

\* the log lines of the loop: one per file processed, "ok" or "error"
FileLog(file_paths, ok, o, a) ==
    LET done_ == Processed(file_paths, ok)
        lines == [i \in DOMAIN file_paths |->
                    [kind |-> "file", key |-> file_paths[i], agent |-> a, idx |-> i,
                     msg |-> o, op |-> IF i \in ok THEN "ok" ELSE "error",
                     obs |-> heap[o]]]
    IN SelectSeq(lines, LAMBDA r : r.idx \in done_)

\* IngestionAgent._handle_document_upload: each file is processed or skipped
\* on error, the embeddings are created (encode, called when there are
\* chunks, succeeds or raises), then DOCUMENT_PROCESSED goes to the Retrieval
\* agent
HandleDocumentUpload ==
    /\ HandlerReady("document_upload")
    /\ LET m == heap[Top.msg]
           text == Get(m.payload, "file_paths", "[]")
           file_paths == FileList(text)
       IN \E ok \in SUBSET DOMAIN file_paths :
            LET all_chunks == AllChunks(file_paths, ok, Len(file_paths)) IN
            /\ calls' = Append(calls,
                               [kind |-> "handler", key |-> HandlerKey(m),
                                agent |-> Top.agent, idx |-> NextIdx, msg |-> Top.msg,
                                op |-> NextHandler.op, obs |-> m])
                         \o FileLog(file_paths, ok, Top.msg, Top.agent)
            /\ \/ /\ send_message(Top.agent, RETRIEVAL, DOCUMENT_PROCESSED,
                                  [chunks |-> ListStr(all_chunks),
                                   embeddings |-> ListStr(all_chunks),
                                   original_files |-> text],
                                  CascadeTrace(m), Advance, Top.msg)
                  /\ SendFrame
                  /\ UNCHANGED collection
               \/ /\ all_chunks # <<>>
                  /\ Raise("EmbeddingError")
                  /\ RaiseFrame

\* LLMResponseAgent._handle_context_response, first send: the chat history
\* request to the Chat agent
HandleContextResponse ==
    /\ HandlerReady("context_response")
    /\ LogHandler
    /\ LET m == heap[Top.msg] IN
       send_message(Top.agent, CHAT, CHAT_HISTORY_REQUEST,
                    [session_id |-> m.trace_id], CascadeTrace(m),
                    ReplaceTop(stack, [Top EXCEPT !.pc = 1]), Top.msg)
    /\ SendFrame
    /\ UNCHANGED collection

InContextResponse ==
    /\ stack # <<>>
    /\ Top.k = "dispatch"
    /\ Top.pc > 0

\* the payload of the answer for receiver r
ResponsePayload(r, response, sources, trace_id) ==
    IF r = CHAT
    THEN [response |-> response, session_id |-> trace_id, sources |-> sources]
    ELSE [response |-> response, sources |-> sources]

\* LLMResponseAgent._handle_context_response, after the history request: the
\* model call (an answer, or the literal fallback when it raises), then the
\* answer to the first receiver
GenerateResponse ==
    /\ InContextResponse
    /\ Top.pc = 1
    /\ LET m == heap[Top.msg]
           sources == Get(m.payload, "sources", "[]")
       IN \E ok \in BOOLEAN :
             send_message(Top.agent, ResponseRoute[1], LLM_RESPONSE,
                          ResponsePayload(ResponseRoute[1],
                                          IF ok THEN "answer" ELSE LLMError,
                                          sources, m.trace_id),
                          CascadeTrace(m),
                          ReplaceTop(stack, [Top EXCEPT !.pc = IF ok THEN 2 ELSE 3]),
                          Top.msg)
    /\ SendFrame
    /\ UNCHANGED <<calls, collection>>

\* LLMResponseAgent._handle_context_response, last send: the same answer to
\* the second receiver
SendResponse ==
    /\ InContextResponse
    /\ Top.pc \in {2, 3}
    /\ LET m == heap[Top.msg]
           sources == Get(m.payload, "sources", "[]")
       IN send_message(Top.agent, ResponseRoute[2], LLM_RESPONSE,
                       ResponsePayload(ResponseRoute[2],
                                       IF Top.pc = 2 THEN "answer" ELSE LLMError,
                                       sources, m.trace_id),
                       CascadeTrace(m), Advance, Top.msg)
    /\ SendFrame
    /\ UNCHANGED <<calls, collection>>

\* the Streamlit application: script runs, user input and the workflows
Script ==
    \/ MainStart
    \/ MainUpload
    \/ MainPrompt

Cascade ==
    \/ MainReturn
    \/ Deliver
    \/ InvokeUICallback
    \/ HandleQuery
    \/ HandleLLMResponse
    \/ HandleChatHistoryRequest
    \/ HandleContextRequest
    \/ HandleDocumentProcessed
    \/ HandleDocumentUpload
    \/ HandleContextResponse
    \/ GenerateResponse
    \/ SendResponse

NextApp == Script \/ Cascade

SpecApp == Init /\ [][NextApp]_vars

\* the interpreter keeps running the code of a script run: a started cascade
\* is carried through; when the user acts is not constrained
SpecAppLive == SpecApp /\ WF_vars(Cascade)

\* ------------------------------------------------------- a single cascade
MaxExtra == 1       \* further instances of the concrete agents

AgentIds == {INGESTION, RETRIEVAL, CHAT, LLM, UI}
MessageTypes == {DOCUMENT_UPLOAD, DOCUMENT_PROCESSED, QUERY, CONTEXT_REQUEST,
                 CONTEXT_RESPONSE, LLM_REQUEST, LLM_RESPONSE, CHAT_HISTORY_REQUEST,
                 CHAT_HISTORY_RESPONSE, ERROR}
Payloads == {[query |-> "q", session_id |-> "sid"],
             [file_paths |-> ListStr(<<"f1", "f2">>)]}

\* the position of an agent's class in initialize_agents
ClassOf(agent) == CHOOSE c \in DOMAIN initialize_agents : initialize_agents[c] = agent

\* one more IngestionAgent(), RetrievalAgent(), ChatAgent() or
\* LLMResponseAgent() (class c): BaseAgent.__init__ subscribes it under the
\* identity of its class, after the instance initialize_agents() made. The
\* lists of _subscribers are per identity, so the order among instances of
\* different classes is immaterial: they are constructed in class order
ExtraAgent(c) ==
    /\ stack = <<>>
    /\ heap = <<>>
    /\ session.agents_initialized
    /\ Len(agents) < Len(initialize_agents) + MaxExtra
    /\ ClassOf(agents[Len(agents)]) <= c \/ Len(agents) = Len(initialize_agents)
    /\ agents' = Append(agents, initialize_agents[c])
    /\ _subscribers' = subscribe(_subscribers, initialize_agents[c].agent_id,
                                 [kind |-> "agent", a |-> Len(agents) + 1])
    /\ UNCHANGED <<_message_history, heap, stack, uuidCount, raised, args, orig,
                   entered, cause, calls, lastRet, lastQuery, done, sent, app>>

\* the senders tried for a type: the script publishes as the UI agent; the
\* one handler that reads message.sender (it replies to it) gets every sender
Senders(msg_type) == IF msg_type = CHAT_HISTORY_REQUEST THEN AgentIds ELSE {UI}

\* the first publish of the process, made by the script with an envelope of
\* any type for any receiver
MainPublish(sender, receiver, msg_type, payload) ==
    /\ InMain
    /\ Top.pc = 0
    /\ heap = <<>>
    /\ publish(sender, receiver, msg_type, payload,
               ReplaceTop(stack, [Top EXCEPT !.pc = 1]))
    /\ UNCHANGED <<agents, _subscribers, raised, calls, lastRet, lastQuery, done, app>>

\* the cascade of one top-level publish over any set of subscribed agents
NextCascade ==
    \/ MainStart
    \/ \E c \in DOMAIN initialize_agents : ExtraAgent(c)
    \/ \E receiver \in AgentIds, msg_type \in MessageTypes, payload \in Payloads :
          \E sender \in Senders(msg_type) :
             MainPublish(sender, receiver, msg_type, payload)
    \/ Cascade

SpecCascade == Init /\ [][NextCascade]_vars

\* the interpreter carries a started call through to its end
SpecCascadeLive == SpecCascade /\ WF_vars(Cascade)

\* ------------------------------------------------ IngestionAgent._chunk_text
\* The text is kept as its length; what the characters decide (where the
\* boundary search stops, whether a slice is all whitespace) is chosen from
\* every outcome some text gives.

CHUNK_SIZE == 1500
CHUNK_OVERLAP == 200

MaxLen == 2900      \* longest text chunked

\* the boundary search fell through without a break
NoBoundary == -1

\* lengths around the places where the loop changes its course
TextLens ==
    {0, 1, CHUNK_OVERLAP, CHUNK_SIZE - 1, CHUNK_SIZE, CHUNK_SIZE + 1,
     2 * CHUNK_SIZE - 2 * CHUNK_OVERLAP + 1, MaxLen}

min(a, b) == IF a < b THEN a ELSE b

\* end = min(start + CHUNK_SIZE, len(text))
ChunkEnd(start, n) == min(start + CHUNK_SIZE, n)

\* the i at which `for i in range(min(CHUNK_OVERLAP, end - start))` can break,
\* or NoBoundary; the search runs only when end < len(text)
Offsets(start, end, n) ==
    IF end < n
    THEN {NoBoundary} \cup (0 .. (min(CHUNK_OVERLAP, end - start) - 1))
    ELSE {NoBoundary}

\* end = end - i at the break
MovedEnd(end, i) == IF i = NoBoundary THEN end ELSE end - i

\* `if chunk_text:` after the strip
Kept(blank) == ~blank

NextStartNoProgress(end, n) == IF end < n THEN end - CHUNK_SIZE ELSE end
NextStartGap(end, n) == IF end < n THEN end + 1 ELSE end
\* start = end - CHUNK_OVERLAP if end < len(text) else end
NextStart(end, n) == IF end < n THEN end - CHUNK_OVERLAP ELSE end

\* chunks = []; start = 0
ChunkText(n) ==
    /\ chunker.pc # "loop"
    /\ chunker' = [NoChunker EXCEPT !.pc = "loop", !.len = n]
    /\ UNCHANGED <<agents, _subscribers, _message_history, heap, stack, uuidCount,
                   raised, args, orig, entered, cause, calls, lastRet, lastQuery,
                   done, sent, session, runs, collection, index, held>>

\* one iteration of `while start < len(text)`
ChunkStep ==
    /\ chunker.pc = "loop"
    /\ chunker.start < chunker.len
    /\ \E i \in Offsets(chunker.start, ChunkEnd(chunker.start, chunker.len),
                        chunker.len), blank \in BOOLEAN :
         LET end == MovedEnd(ChunkEnd(chunker.start, chunker.len), i)
         IN  chunker' = [chunker EXCEPT
                 !.start = NextStart(end, chunker.len),
                 !.ranges = @ + 1,
                 !.chunks = IF Kept(blank) THEN @ + 1 ELSE @,
                 !.last = [start_char |-> chunker.start, end_char |-> end,
                           back |-> i, blank |-> blank, kept |-> Kept(blank)]]
    /\ UNCHANGED <<agents, _subscribers, _message_history, heap, stack, uuidCount,
                   raised, args, orig, entered, cause, calls, lastRet, lastQuery,
                   done, sent, session, runs, collection, index, held>>

\* the loop condition fails: return chunks
ChunkReturn ==
    /\ chunker.pc = "loop"
    /\ ~(chunker.start < chunker.len)
    /\ chunker' = [chunker EXCEPT !.pc = "done"]
    /\ UNCHANGED <<agents, _subscribers, _message_history, heap, stack, uuidCount,
                   raised, args, orig, entered, cause, calls, lastRet, lastQuery,
                   done, sent, session, runs, collection, index, held>>

NextChunk ==
    \/ \E n \in TextLens : ChunkText(n)
    \/ ChunkStep
    \/ ChunkReturn

SpecChunk == Init /\ [][NextChunk]_vars

\* a call that has started keeps running
SpecChunkLive == SpecChunk /\ WF_vars(ChunkStep \/ ChunkReturn)

\* ================================================================ claims
\* the registration indexes of agent a's handlers invoked with envelope o,
\* in invocation order
RECURSIVE HandlerCalls(_, _, _)
HandlerCalls(log, a, o) ==
    IF log = <<>> THEN <<>>
    ELSE LET c == Head(log) IN
         IF c.kind = "handler" /\ c.agent = a /\ c.msg = o
         THEN <<c.idx>> \o HandlerCalls(Tail(log), a, o)
         ELSE HandlerCalls(Tail(log), a, o)

Iota(n) == [i \in 1..n |-> i]

\* the handlers agent a has registered for the type of envelope o
Registered(a, o) ==
    IF heap[o].type \in DOMAIN agents[a]._callbacks
    THEN agents[a]._callbacks[heap[o].type] ELSE <<>>

\* the agents subscribed under the receiver of envelope o
Receivers(o) == {a \in DOMAIN agents : agents[a].agent_id = heap[o].receiver}

Returned == lastRet.msg # 0

\* ---- C1
\* C1 as stated: when publish(E) returns, the history holds E exactly once
\* more than before the call and E is its last element.
C1_LastWhenPublishReturns ==
    Returned => /\ lastRet.count = lastRet.before + 1
                /\ lastRet.tail = lastRet.msg

\* C1 amended: when publish(E) returns, the history holds E exactly once more
\* than before the call, at the position right after the entries that were
\* there when publish was entered; the entries after E are the envelopes
\* published by the cascade E triggered (none when no handler publishes).
C1_AppendedOnceAtEntry ==
    Returned => /\ lastRet.count = lastRet.before + 1
                /\ lastRet.pos = lastRet.base + 1
                /\ lastRet.hlen = lastRet.base + 1 + lastRet.nested
                /\ (lastRet.nested = 0 => lastRet.tail = lastRet.msg)

\* a publish returned after its handlers published further envelopes
C1_Witness == Returned /\ lastRet.nested > 0 /\ lastRet.base > 0

\* ---- C2
\* C2: the history is the sequence of envelopes in the order publish was
\* entered, and an envelope precedes every envelope sent by a handler it
\* triggered.
C2_PublishOrder ==
    /\ _message_history = entered
    /\ \A o \in DOMAIN heap :
          cause[o] # 0 =>
             /\ Pos(_message_history, cause[o]) > 0
             /\ Pos(_message_history, cause[o]) < Pos(_message_history, o)

\* a request and the envelope its handler forwarded under the same trace id:
\* the history for that trace id is [REQ, FWD]
C2_Witness ==
    /\ stack = <<>>
    /\ Len(heap) >= 2
    /\ heap[1].type = "REQ" /\ heap[2].type = "FWD" /\ cause[2] = 1
    /\ heap[1].receiver # heap[2].receiver
    /\ get_message_history(heap[1].trace_id) = <<1, 2>>

\* ---- C3
\* C3 as stated: once a publish is over, every agent subscribed under the
\* envelope's receiver has had each of its n handlers for the envelope's type
\* invoked exactly once, in registration order.
C3_AllHandlersOnce ==
    stack = <<>> =>
       \A o \in DOMAIN heap : \A a \in Receivers(o) :
          HandlerCalls(calls, a, o) = Iota(Len(Registered(a, o)))

\* C3 amended: when publish(E) returns normally, every agent subscribed
\* under E.receiver has had each of its n handlers for E.type invoked exactly
\* once, in registration order; a handler that raises ends the delivery, so
\* at any time the handlers invoked are the first k of the n, in order.
C3_AllHandlersOnceOnReturn ==
    /\ Returned => \A a \in Receivers(lastRet.msg) :
          HandlerCalls(calls, a, lastRet.msg) = Iota(Len(Registered(a, lastRet.msg)))
    /\ \A o \in DOMAIN heap : \A a \in DOMAIN agents :
          \E k \in 0..Len(Registered(a, o)) : HandlerCalls(calls, a, o) = Iota(k)

\* publish returned for an envelope whose receiver has two handlers for it
C3_Witness ==
    /\ Returned
    /\ \E a \in Receivers(lastRet.msg) :
          /\ Len(Registered(a, lastRet.msg)) = 2
          /\ Registered(a, lastRet.msg)[1] # Registered(a, lastRet.msg)[2]
          /\ HandlerCalls(calls, a, lastRet.msg) = <<1, 2>>

\* ---- C4
\* C4: every callback invoked for E is one subscribed under E.receiver and
\* every handler invoked for E is one registered for E.type.
C4_ExactRouting ==
    \A x \in DOMAIN calls :
       LET c == calls[x] m == heap[c.msg] IN
       IF c.kind = "callback"
       THEN /\ c.key = m.receiver
            /\ agents[c.agent].agent_id = m.receiver
       ELSE /\ c.key = m.type
            /\ agents[c.agent].agent_id = m.receiver
            /\ m.type \in DOMAIN agents[c.agent]._callbacks
            /\ c.idx \in DOMAIN agents[c.agent]._callbacks[m.type]

\* a handler ran for an envelope while an agent was subscribed under another
\* identity and the receiving agent had a handler for another type as well
C4_Witness ==
    \E x \in DOMAIN calls :
       LET c == calls[x] m == heap[c.msg] IN
       /\ c.kind = "handler"
       /\ m.sender # m.receiver
       /\ \E b \in DOMAIN agents : agents[b].agent_id # m.receiver
       /\ \E t \in DOMAIN agents[c.agent]._callbacks : t # m.type

\* ---- C5
\* C5: a publish to a receiver without subscribers takes the no-subscriber
\* branch (it cannot raise), invokes nothing, returns the envelope's own
\* trace_id and grows the history by that one envelope.
C5_NoSubscriber ==
    /\ (stack # <<>> /\ Top.k = "publish"
          /\ heap[Top.msg].receiver \notin DOMAIN _subscribers) => ~Top.loop
    /\ (Returned /\ heap[lastRet.msg].receiver \notin DOMAIN _subscribers) =>
          /\ lastRet.value = heap[lastRet.msg].trace_id
          /\ lastRet.hlen = lastRet.base + 1
          /\ lastRet.tail = lastRet.msg
          /\ \A x \in DOMAIN calls : calls[x].msg # lastRet.msg

\* a publish to a receiver without subscribers returned
C5_Witness ==
    /\ Returned
    /\ heap[lastRet.msg].receiver \notin DOMAIN _subscribers
    /\ lastRet.base > 0

\* ---- C6
NoHandlerDispatch ==
    /\ stack # <<>>
    /\ Top.k = "dispatch"
    /\ heap[Top.msg].type \notin DOMAIN agents[Top.agent]._callbacks

\* C6: a dispatch of an envelope whose type has no handler returns to the
\* publish loop without raising, invoking or publishing anything and leaves
\* the handler tables, the subscription table and the history unchanged.
C6_NoHandlerNoEffect ==
    [][NoHandlerDispatch =>
          /\ stack' = Pop(stack)
          /\ raised' = raised
          /\ UNCHANGED <<agents, _subscribers, _message_history, heap, calls>>]_vars

\* an agent was handed an envelope of a type it has no handler for, while it
\* has a handler for another type, and the publish is over
C6_Witness ==
    /\ stack = <<>>
    /\ raised = NoError
    /\ \E x \in DOMAIN calls :
          LET c == calls[x] IN
          /\ c.kind = "callback"
          /\ heap[c.msg].type \notin DOMAIN agents[c.agent]._callbacks
          /\ agents[c.agent]._callbacks # EmptyDict

\* ---- C7
\* C7 as stated: an envelope created with an explicit trace_id, the empty
\* string included, carries that value, and send_message returns it.
C7_ExplicitTraceVerbatim ==
    /\ \A o \in DOMAIN heap : args[o] # None => heap[o].trace_id = args[o]
    /\ (Returned /\ args[lastRet.msg] # None) => lastRet.value = args[lastRet.msg]

\* ---- C8
\* C8: the envelopes created without a trace_id have non-empty trace ids that
\* differ from one another.
C8_FreshTraceIds ==
    \A o \in DOMAIN heap :
       args[o] = None =>
          /\ heap[o].trace_id # ""
          /\ \A q \in DOMAIN heap :
                (q # o /\ args[q] = None) => heap[q].trace_id # heap[o].trace_id

\* a top-level send and a handler's send, both without a trace_id
C8_Witness ==
    \E o, q \in DOMAIN heap :
       /\ o # q
       /\ args[o] = None /\ args[q] = None
       /\ cause[o] = 0 /\ cause[q] # 0

\* ---- C9
\* C9 as stated: for every string t, get_message_history(t) is the history
\* restricted to the envelopes whose trace_id is t, in publish order.
C9_FilterExact ==
    (lastQuery.arg # "-" /\ lastQuery.arg # None) =>
       lastQuery.res =
          SelectSeq(_message_history, LAMBDA o : heap[o].trace_id = lastQuery.arg)

\* ---- C10
\* C10 as stated: every envelope of the history equals, payload contents
\* included, the value it was constructed with.
C10_DeeplyImmutable ==
    \A x \in DOMAIN _message_history :
       heap[_message_history[x]] = orig[_message_history[x]]

\* C10 amended: sender, receiver, type and trace_id of every envelope of the
\* history keep the values they were constructed with (an assignment to a
\* field raises); the contents of the payload dict change only when a
\* handler assigns into the dict in place.
C10_FieldsImmutable ==
    \A x \in DOMAIN _message_history :
       LET o == _message_history[x] IN
       /\ heap[o].sender = orig[o].sender
       /\ heap[o].receiver = orig[o].receiver
       /\ heap[o].type = orig[o].type
       /\ heap[o].trace_id = orig[o].trace_id
       /\ heap[o].payload # orig[o].payload =>
             \E y \in DOMAIN calls : calls[y].msg = o /\ calls[y].op = "setitem"

\* a handler's assignment to a field was refused, and another handler has
\* changed the payload of an envelope of the history in place
C10_Witness ==
    /\ raised = "TypeError"
    /\ \E y \in DOMAIN calls : calls[y].op = "setattr"
    /\ \E x \in DOMAIN _message_history :
          heap[_message_history[x]].payload # orig[_message_history[x]].payload

\* ---- C11
\* C11 as stated: every callback and handler invoked for an envelope observes
\* the contents the publisher passed; no handler makes a change that a later
\* handler of the same envelope observes.
C11_SameContents ==
    \A x \in DOMAIN calls : calls[x].obs = orig[calls[x].msg]

\* C11 amended: every callback and handler invoked for an envelope observes
\* the sender, receiver, type and trace_id the publisher passed; the payload
\* is the publisher's dict itself, and a handler observes other contents in
\* it only after an earlier handler of the same envelope assigned into the
\* dict in place.
C11_SameFields ==
    \A x \in DOMAIN calls :
       LET c == calls[x] o == orig[calls[x].msg] IN
       /\ c.obs.sender = o.sender
       /\ c.obs.receiver = o.receiver
       /\ c.obs.type = o.type
       /\ c.obs.trace_id = o.trace_id
       /\ c.obs.payload # o.payload =>
             \E y \in 1..(x - 1) : calls[y].msg = c.msg /\ calls[y].op = "setitem"

\* a handler was invoked with an envelope whose payload an earlier handler of
\* the same envelope had changed
C11_Witness ==
    \E x \in DOMAIN calls :
       /\ calls[x].kind = "handler"
       /\ calls[x].obs.payload # orig[calls[x].msg].payload

\* ---- C12
\* envelope o and the envelopes whose handlers' sends led to it
RECURSIVE Chain(_)
Chain(o) == IF o = 0 THEN {} ELSE {o} \cup Chain(cause[o])

\* C12: when a handler raises while processing E, the exception leaves
\* publish(E) and every enclosing publish (none of them returns and the call
\* stack is gone), nothing is invoked afterwards for E or for an enclosing
\* envelope, and every envelope published so far is in the history once.
C12_RaisePropagates ==
    /\ raised # NoError => stack = <<>>
    /\ \A o \in DOMAIN heap : Count(_message_history, o) = 1
    /\ \A x \in DOMAIN calls :
          calls[x].op = "raise" =>
             /\ Chain(calls[x].msg) \cap done = {}
             /\ \A y \in DOMAIN calls : y > x => calls[y].msg \notin Chain(calls[x].msg)

\* a handler raised inside a nested publish: the exception went through the
\* enclosing publish, and both envelopes are in the history
C12_Witness ==
    /\ raised = "Exception"
    /\ \E x \in DOMAIN calls :
          /\ calls[x].op = "raise"
          /\ cause[calls[x].msg] # 0
          /\ Pos(_message_history, cause[calls[x].msg]) > 0

\* ---- C13
\* the subscription indexes of the callbacks invoked with envelope o, in
\* invocation order
CallbackCalls(o) ==
    LET sel == SelectSeq(calls, LAMBDA c : c.kind = "callback" /\ c.msg = o)
    IN [i \in DOMAIN sel |-> sel[i].idx]

\* C13: delivery is synchronous and depth-first. Once publish(E) has returned
\* every subscriber of E.receiver has been invoked and the whole cascade E
\* triggered has returned; and whenever control is in a loop over E's
\* subscribers or handlers, every publish made so far by a handler of E has
\* returned, so the next subscriber or handler starts after that cascade.
C13_DepthFirst ==
    /\ \A e \in done :
          /\ heap[e].receiver \in DOMAIN _subscribers =>
                CallbackCalls(e) = Iota(Len(_subscribers[heap[e].receiver]))
          /\ \A q \in DOMAIN heap : e \in Chain(q) => q \in done
    /\ stack # <<>> => \A q \in DOMAIN heap : cause[q] = Top.msg => q \in done

\* publish(E) returned after its first handler's send was delivered to the
\* other agent and its second handler ran after that
C13_Witness ==
    \E x, y, z \in DOMAIN calls :
       /\ x < y /\ y < z
       /\ calls[x].kind = "handler" /\ calls[x].op = "send"
       /\ cause[calls[y].msg] = calls[x].msg
       /\ calls[z].kind = "handler" /\ calls[z].msg = calls[x].msg
       /\ calls[x].msg \in done

\* ---- C14
\* the agents whose callback was invoked with envelope o, in invocation order
CallbackAgents(o) ==
    LET sel == SelectSeq(calls, LAMBDA c : c.kind = "callback" /\ c.msg = o)
    IN [i \in DOMAIN sel |-> sel[i].agent]

\* the agents constructed under identity id, in construction order
AgentsOf(id) == SelectSeq(Iota(Len(agents)), LAMBDA a : agents[a].agent_id = id)

C16_SendMessage ==
    /\ \A o \in DOMAIN heap :
          sent[o].self # "-" =>
             /\ orig[o].sender = sent[o].self
             /\ orig[o].receiver = sent[o].receiver
             /\ orig[o].type = sent[o].type
             /\ orig[o].payload = sent[o].payload
             /\ Count(entered, o) = 1
             /\ Count(_message_history, o) = 1
    /\ (Returned /\ sent[lastRet.msg].self # "-") =>
          lastRet.value = heap[lastRet.msg].trace_id

\* a send_message to another identity returned after a handler's send_message
\* it triggered
C16_Witness ==
    /\ Returned
    /\ sent[lastRet.msg].self # sent[lastRet.msg].receiver
    /\ cause[lastRet.msg] = 0
    /\ \E q \in done : cause[q] = lastRet.msg

\* ---- C15
\* C15 as stated: every identity of the subscription table has exactly one
\* broker-level handler.
C15_SoleHandler ==
    \A id \in DOMAIN _subscribers : Len(_subscribers[id]) = 1

\* ---- C18
\* C18 as stated: no collaborator failure makes an exception leave a handler
\* and propagate into publish.
C18_FailuresCaught == raised = NoError

\* ---- C17
\* an LLM_RESPONSE with the trace id of envelope o was handed to a UI agent
Answered(o) ==
    \E x \in DOMAIN calls :
       /\ calls[x].kind = "ui"
       /\ heap[calls[x].msg].type = LLM_RESPONSE
       /\ heap[calls[x].msg].trace_id = heap[o].trace_id

Unanswered ==
    \E o \in DOMAIN heap :
       /\ heap[o].type = QUERY
       /\ heap[o].receiver = CHAT
       /\ ~Answered(o)

\* C17 as stated: every QUERY published to the Chat agent is eventually
\* followed by an LLM_RESPONSE with the same trace id delivered to the UI
\* agent, whatever the collaborators do.
C17_QueryAnswered == Unanswered ~> ~Unanswered

\* ---- C19
\* the envelopes of o's trace id in history order: type, sender, receiver
Route(o) ==
    LET h == get_message_history(heap[o].trace_id)
    IN [i \in DOMAIN h |-> <<heap[h[i]].type, heap[h[i]].sender, heap[h[i]].receiver>>]

WorkflowTypes == {QUERY, CONTEXT_REQUEST, CONTEXT_RESPONSE, LLM_RESPONSE}

FiveEnvelopes ==
    << <<QUERY, UI, CHAT>>,
       <<CONTEXT_REQUEST, CHAT, RETRIEVAL>>,
       <<CONTEXT_RESPONSE, RETRIEVAL, LLM>>,
       <<LLM_RESPONSE, LLM, CHAT>>,
       <<LLM_RESPONSE, LLM, UI>> >>

SevenEnvelopes ==
    SubSeq(FiveEnvelopes, 1, 3)
       \o << <<CHAT_HISTORY_REQUEST, LLM, CHAT>>, <<CHAT_HISTORY_RESPONSE, CHAT, LLM>> >>
       \o SubSeq(FiveEnvelopes, 4, 5)

\* the query workflows that ran to their end without an exception
CompletedQueries == {o \in done : heap[o].type = QUERY}

\* C19 as stated: the envelopes of a completed query's trace id are, in
\* history order, QUERY, CONTEXT_REQUEST, CONTEXT_RESPONSE, LLM_RESPONSE to
\* the Chat agent and LLM_RESPONSE to the UI agent.
C19_FiveEnvelopes ==
    \A o \in CompletedQueries : Route(o) = FiveEnvelopes

\* C19 amended: the envelopes of a completed query's trace id are those five
\* in that order, with one CHAT_HISTORY_REQUEST (LLM to Chat) and its
\* CHAT_HISTORY_RESPONSE (Chat to LLM) between the CONTEXT_RESPONSE and the
\* first LLM_RESPONSE: seven envelopes, each published once.
C19_SevenEnvelopes ==
    \A o \in CompletedQueries :
       /\ Route(o) = SevenEnvelopes
       /\ SelectSeq(Route(o), LAMBDA e : e[1] \in WorkflowTypes) = FiveEnvelopes
       /\ \A q \in DOMAIN heap :
             heap[q].trace_id = heap[o].trace_id => Count(_message_history, q) = 1

\* a query workflow ran without any failure: the index was there, the search
\* returned a chunk and the UI holds the model's answer
C19_Witness ==
    \E o \in CompletedQueries :
       /\ index # None
       /\ \E q \in DOMAIN heap :
             /\ heap[q].trace_id = heap[o].trace_id
             /\ heap[q].type = CONTEXT_RESPONSE
             /\ Get(heap[q].payload, "chunks", "[]") = "[c2, c1]"
       /\ session.responses # <<>>
       /\ session.responses[Len(session.responses)].text = "answer"
       /\ ~session.waiting_for_response

\* ---- C20
\* C20: every envelope a concrete agent publishes from a handler carries the
\* trace_id of the envelope being handled, so every envelope of a cascade has
\* the trace_id of the top-level publish that started it.
C20_CascadeTrace ==
    \A o \in DOMAIN heap :
       /\ cause[o] # 0 => heap[o].trace_id = heap[cause[o]].trace_id
       /\ \A q \in Chain(o) : heap[q].trace_id = heap[o].trace_id

\* an upload cascade and a query cascade, under two trace ids, each with an
\* envelope published from a handler
C20_Witness ==
    \E o, q \in DOMAIN heap :
       /\ heap[o].type = DOCUMENT_PROCESSED /\ cause[o] # 0
       /\ heap[q].type = LLM_RESPONSE /\ heap[q].receiver = UI /\ cause[q] # 0
       /\ heap[o].trace_id # heap[q].trace_id

\* ---- C21
\* each agent's handler table
HandlerTables == [a \in DOMAIN agents |-> agents[a]._callbacks]

\* C21 as stated: in the running application no step that follows the first
\* publish changes the subscription table or a handler table.
C21_SetupBeforeTraffic ==
    [][heap # <<>> => UNCHANGED <<_subscribers, HandlerTables>>]_vars

\* ---- C22
IsPrefix(s, t) == Len(s) <= Len(t) /\ SubSeq(t, 1, Len(s)) = s

\* C22: no step removes or reorders a subscription or a handler registration:
\* every identity keeps its subscriber list, and every agent its handler list
\* of every type, as a prefix of the list after the step (so the list after
\* any sequence of operations has every earlier value as a prefix).
C22_AppendOnly ==
    [][/\ \A id \in DOMAIN _subscribers :
             /\ id \in DOMAIN _subscribers'
             /\ IsPrefix(_subscribers[id], _subscribers'[id])
       /\ \A a \in DOMAIN agents :
             /\ a \in DOMAIN agents'
             /\ agents'[a].agent_id = agents[a].agent_id
             /\ \A t \in DOMAIN agents[a]._callbacks :
                   /\ t \in DOMAIN agents'[a]._callbacks
                   /\ IsPrefix(agents[a]._callbacks[t], agents'[a]._callbacks[t])]_vars

\* an identity with two subscribers, and an agent with two different handlers
\* of one type, the second registered while an envelope was being delivered
C22_Witness ==
    /\ \E id \in DOMAIN _subscribers : Len(_subscribers[id]) = 2
    /\ \E a \in DOMAIN agents : \E t \in DOMAIN agents[a]._callbacks :
          /\ Len(agents[a]._callbacks[t]) = 2
          /\ agents[a]._callbacks[t][1] # agents[a]._callbacks[t][2]
          /\ \E x \in DOMAIN calls :
                calls[x].kind = "register" /\ calls[x].agent = a /\ calls[x].idx = 2
    /\ done # {}

\* ---- C23
\* C23 as stated: a callback subscribed under E.receiver by a handler running
\* during publish(E) is never invoked with E, and a handler registered for
\* E.type on the receiving agent during the dispatch of E is never invoked
\* with E.
C23_OnlyLaterEnvelopes ==
    \A x, y \in DOMAIN calls :
       /\ (/\ calls[x].kind = "subscribe"
           /\ calls[y].kind = "callback"
           /\ calls[y].agent = calls[x].agent) => calls[y].msg # calls[x].msg
       /\ (/\ calls[x].kind = "register"
           /\ calls[y].kind = "handler"
           /\ calls[y].agent = calls[x].agent
           /\ calls[y].key = calls[x].key
           /\ calls[y].idx = calls[x].idx) => calls[y].msg # calls[x].msg

\* ---- C24
\* the CHAT_HISTORY_RESPONSE envelopes published by the handler of request o
HistoryResponses(o) ==
    {q \in DOMAIN heap : cause[q] = o /\ heap[q].type = CHAT_HISTORY_RESPONSE}

\* C24 as stated: for every CHAT_HISTORY_REQUEST handed to the Chat agent's
\* handler, exactly one CHAT_HISTORY_RESPONSE is published, to the request's
\* sender, with the request's trace id and the requested session_id
\* ("default" when the request has none).
C24_OneHistoryResponse ==
    \A x \in DOMAIN calls :
       (calls[x].kind = "handler" /\ calls[x].op = "chat_history_request") =>
          LET o == calls[x].msg IN
          /\ Cardinality(HistoryResponses(o)) = 1
          /\ \A q \in HistoryResponses(o) :
                /\ heap[q].receiver = heap[o].sender
                /\ heap[q].sender = CHAT
                /\ heap[q].trace_id = heap[o].trace_id
                /\ heap[q].payload.session_id =
                      Get(heap[o].payload, "session_id", "default")

\* ---- C25
\* the DOCUMENT_PROCESSED envelopes published by the handler of upload o
Processings(o) ==
    {q \in DOMAIN heap : cause[q] = o /\ heap[q].type = DOCUMENT_PROCESSED}

\* the positions of upload o's files that were processed, and without error
FilesTried(o) ==
    {calls[y].idx : y \in {z \in DOMAIN calls : calls[z].kind = "file" /\ calls[z].msg = o}}

FilesRead(o) ==
    {calls[y].idx : y \in {z \in DOMAIN calls :
                              calls[z].kind = "file" /\ calls[z].msg = o /\ calls[z].op = "ok"}}

\* the chunks of the files at the positions ok, in file order
RECURSIVE ChunksOf(_, _, _)
ChunksOf(file_paths, ok, n) ==
    IF n = 0 THEN <<>>
    ELSE ChunksOf(file_paths, ok, n - 1)
            \o (IF n \in ok THEN _process_document(file_paths[n]) ELSE <<>>)

\* C25 as stated: for every DOCUMENT_UPLOAD handed to the Ingestion agent's
\* handler, every file is processed whichever files failed, and exactly one
\* DOCUMENT_PROCESSED is published, to the Retrieval agent, with the upload's
\* trace id, original_files = file_paths and the chunks of the files that
\* were processed without error, in file order.
C25_OneDocumentProcessed ==
    \A x \in DOMAIN calls :
       (calls[x].kind = "handler" /\ calls[x].op = "document_upload") =>
          LET o == calls[x].msg
              file_paths == FileList(heap[o].payload.file_paths)
          IN /\ FilesTried(o) = DOMAIN file_paths
             /\ Cardinality(Processings(o)) = 1
             /\ \A q \in Processings(o) :
                   /\ heap[q].receiver = RETRIEVAL
                   /\ heap[q].trace_id = heap[o].trace_id
                   /\ heap[q].payload.original_files = heap[o].payload.file_paths
                   /\ heap[q].payload.chunks =
                         ListStr(ChunksOf(file_paths, FilesRead(o), Len(file_paths)))

\* ---- C26
\* envelope o belongs to a query workflow: it has the trace id of a QUERY
\* published by the script
InQueryWorkflow(o) ==
    \E r \in DOMAIN heap :
       /\ heap[r].type = QUERY
       /\ cause[r] = 0
       /\ heap[r].trace_id = heap[o].trace_id

\* C26 as stated: no envelope that an agent publishes in a query workflow
\* takes the no-subscriber branch of publish or the no-handler branch of
\* _handle_message: every running publish and dispatch of such an envelope
\* found a subscriber list, respectively a handler list.
C26_AlwaysHandled ==
    \A f \in DOMAIN stack :
       (/\ stack[f].k \in {"publish", "dispatch"}
        /\ cause[stack[f].msg] # 0
        /\ InQueryWorkflow(stack[f].msg)) => stack[f].loop

\* ---- C27
\* C27 as stated: the assistant turn and the user turn stored under one trace
\* id carry the same session_id.
C27_SameSession ==
    \A d, e \in DOMAIN collection :
       (/\ collection[d].role = "user"
        /\ collection[e].role = "assistant"
        /\ collection[d].trace_id = collection[e].trace_id)
          => collection[d].session_id = collection[e].session_id

\* ---- C28
\* the trace ids of the prompts, in the order they were appended to messages
PromptTraces ==
    LET qs == SelectSeq(entered, LAMBDA o : heap[o].type = QUERY /\ cause[o] = 0)
    IN [i \in DOMAIN qs |-> heap[qs[i]].trace_id]

\* the trace ids of the answers, in the order they were appended to responses
ResponseTraces ==
    LET rs == SelectSeq(calls, LAMBDA c : c.kind = "ui" /\ c.obs.type = LLM_RESPONSE)
    IN [i \in DOMAIN rs |-> rs[i].obs.trace_id]

\* C28 as stated: the responses list is never longer than the messages list,
\* and its i-th entry is the answer to the i-th prompt.
C28_OneResponsePerPrompt ==
    /\ Len(session.responses) <= Len(session.messages)
    /\ Len(ResponseTraces) = Len(session.responses)
    /\ Len(PromptTraces) = Len(session.messages)
    /\ \A i \in DOMAIN session.responses :
          i \in DOMAIN PromptTraces /\ ResponseTraces[i] = PromptTraces[i]

\* ---- C29
\* C29 as stated: whenever waiting_for_response is True it is eventually
\* False again, whatever the collaborators of the workflow do.
C29_NeverLocked ==
    session.waiting_for_response ~> ~session.waiting_for_response

\* ---- C30
\* the envelopes whose handlers' sends led to envelope o
Ancestors(o) == Chain(cause[o])

\* C30: over any set of subscribed instances of the concrete agents, the
\* cascade of a top-level publish of any type to any receiver is finite (no
\* call runs forever: the call stack is empty again and again, the started
\* publish having ended normally or by an exception) and has no cycle: no
\* envelope is caused by an envelope of its own type and receiver.
C30_CascadeTerminates ==
    /\ [](\A o \in DOMAIN heap : \A q \in Ancestors(o) :
             <<heap[q].type, heap[q].receiver>> # <<heap[o].type, heap[o].receiver>>)
    /\ []<>(stack = <<>>)

\* a QUERY delivered to two Chat agents ran to its end: both forwarded it,
\* and the answers reached two UI agents
C30_Witness ==
    /\ stack = <<>>
    /\ raised = NoError
    /\ {CHAT, UI} \subseteq DOMAIN _subscribers
    /\ Len(_subscribers[CHAT]) = 2
    /\ Len(_subscribers[UI]) = 2
    /\ \E o \in done :
          /\ heap[o].type = QUERY
          /\ Cardinality({q \in done : cause[q] = o /\ heap[q].type = CONTEXT_REQUEST}) = 2
          /\ Cardinality({x \in DOMAIN calls :
                             /\ calls[x].kind = "ui"
                             /\ calls[x].obs.type = LLM_RESPONSE
                             /\ calls[x].obs.trace_id = heap[o].trace_id}) = 4

\* ---- C31
\* C31 as stated: a call of get_message_history changes neither the history
\* nor the subscription table, and the list it returned keeps the value it
\* had at the return, whatever is published afterwards.
C31_Snapshot ==
    /\ [](held.arg # "-" => Held = held.res)
    /\ [][held' # held => UNCHANGED <<_message_history, _subscribers>>]_vars

\* ---- C32
\* C32: _chunk_text terminates for every text: each iteration of the loop
\* leaves start strictly larger than it was and at most len(text), also
\* when the end was moved back to a boundary, and every call returns.
C32_ChunkTerminates ==
    /\ [][chunker'.ranges = chunker.ranges + 1 =>
            /\ chunker'.start > chunker.start
            /\ chunker'.start <= chunker.len]_vars
    /\ []<>(chunker.pc # "loop")

\* the call has returned after three iterations, the second of which moved
\* its end back as far as the search can and made the least progress
C32_Witness ==
    /\ chunker.pc = "done"
    /\ chunker.ranges = 3
    /\ chunker.chunks = 3
    /\ chunker.last.start_char = 2 * (CHUNK_SIZE - 2 * CHUNK_OVERLAP + 1)
    /\ chunker.last.end_char = chunker.len

\* ---- C33
\* C33: the ranges [start_char, end_char) computed by _chunk_text cover the
\* text without a gap: the first starts at 0, each next one starts at or
\* before the end of the one before it, the last ends at len(text), none is
\* longer than CHUNK_SIZE, and a range is left out of the result only when
\* its text is all whitespace.
C33_RangesCover ==
    /\ [](/\ chunker.ranges = 1 => chunker.last.start_char = 0
          /\ chunker.ranges > 0 =>
                /\ chunker.last.start_char < chunker.last.end_char
                /\ chunker.last.end_char - chunker.last.start_char <= CHUNK_SIZE
                /\ chunker.last.end_char <= chunker.len
                /\ ~chunker.last.kept => chunker.last.blank
          /\ chunker.pc = "done" =>
                IF chunker.ranges = 0 THEN chunker.len = 0
                ELSE chunker.last.end_char = chunker.len)
    /\ [][chunker.ranges > 0 /\ chunker'.ranges = chunker.ranges + 1 =>
            /\ chunker'.last.start_char <= chunker.last.end_char
            /\ chunker'.last.end_char > chunker.last.end_char]_vars

\* three ranges of one text, some end moved back to a boundary, one range
\* all whitespace and left out, the last one kept and ending the text
C33_Witness ==
    /\ chunker.pc = "done"
    /\ chunker.ranges = 3
    /\ chunker.chunks = 2
    /\ chunker.last.kept
    /\ chunker.last.start_char < 2 * (CHUNK_SIZE - CHUNK_OVERLAP)
    /\ chunker.last.end_char = chunker.len

\* ---- C34
\* C34 as stated: every CONTEXT_RESPONSE envelope the Retrieval agent
\* publishes, on the normal path and on both degraded paths, has the keys
\* query, chunks and sources in its payload, and chunks and sources are those
\* of the matches of one search with a score of at least
\* SIMILARITY_THRESHOLD, in the order of the search.
C34_ContextResponseShape ==
    \A q \in DOMAIN heap :
        (heap[q].type = CONTEXT_RESPONSE /\ heap[q].sender = RETRIEVAL) =>
            /\ {"query", "chunks", "sources"} \subseteq DOMAIN heap[q].payload
            /\ \E matches \in Searches :
                 LET kept == SelectSeq(matches,
                                 LAMBDA match : match.score >= SIMILARITY_THRESHOLD)
                 IN /\ heap[q].payload.chunks =
                          ListStr([i \in DOMAIN kept |-> kept[i].text])
                    /\ heap[q].payload.sources =
                          ListStr([i \in DOMAIN kept |-> kept[i].source])

====
